---- MODULE Spec2Model ----
(***************************************************************************)
(* Model of finalproject/src/main.rs: the record model, the feature        *)
(* extraction and result grouping of k_means_clustering, the entity        *)
(* matcher filter_common_municipalities, the graph builder and the driver. *)
(* Weights (f64 in the source) are integers here, in tenths: 5 is 0.5.     *)
(***************************************************************************)
EXTENDS Integers, Sequences, FiniteSets, TLC

VARIABLES
    pc,                      \* position of the function under analysis
    entry,                   \* one record (feature extraction)
    feature_vec,             \* its extracted feature vector
    data,                    \* input slice of k_means_clustering / create_graph
    k,                       \* requested number of clusters
    clusters,                \* the labels returned by KMeans::fit
    result_clusters,         \* HashMap<usize, Vec<&str>> returned
    graph,                   \* DiGraph built by create_graph
    data1,                   \* first input of filter_common_municipalities
    data2,                   \* second input of filter_common_municipalities
    matches,                 \* (index in data1, index found in data2) per emitted pair
    common_municipalities,   \* Vec<(String, T, T)> returned
    education_data,          \* main: records read from educationstats.txt
    pop_growth_data,         \* main: records read from popgrowthstats.txt
    education_graph,         \* main: create_graph(&education_data)
    pop_growth_graph,        \* main: create_graph(&pop_growth_data)
    education_clusters,      \* main: k_means_clustering(&education_data, k)
    pop_growth_clusters,     \* main: k_means_clustering(&pop_growth_data, k)
    stderr,                  \* main: messages written to standard error
    files,                   \* main: output files written
    attempted                \* main: the stages entered so far

vars == <<pc, entry, feature_vec, data, k, clusters, result_clusters, graph,
          data1, data2, matches, common_municipalities,
          education_data, pop_growth_data, education_graph, pop_growth_graph,
          education_clusters, pop_growth_clusters, stderr, files, attempted>>

featureVars == <<entry, feature_vec>>
clusterVars == <<data, k, clusters, result_clusters>>
graphVars == <<graph>>
filterVars == <<data1, data2, matches, common_municipalities>>
driverVars == <<education_data, pop_growth_data, education_graph, pop_growth_graph,
                education_clusters, pop_growth_clusters, stderr, files, attempted>>

(***************************************************************************)
(* Bounds of the model.                                                    *)
(***************************************************************************)
MaxWeight == 2
MaxRecords == 3
MaxK == 3
MaxFilterLen == 2
MaxDriverLen == 3

\* A value for a variable the specification at hand does not use.
NotUsed == "not_used"

\* The driver's variables in the specifications of the single functions.
DriverIdle ==
    /\ education_data = NotUsed /\ pop_growth_data = NotUsed
    /\ education_graph = NotUsed /\ pop_growth_graph = NotUsed
    /\ education_clusters = NotUsed /\ pop_growth_clusters = NotUsed
    /\ stderr = NotUsed /\ files = NotUsed /\ attempted = NotUsed

SeqsUpTo(S, n) == UNION {[1..m -> S] : m \in 0..n}

(***************************************************************************)
(* Record model: { municipality: String, data: HashMap<i32, (i32, f64)> }  *)
(***************************************************************************)
Rec(name, map) == [municipality |-> name, data |-> map]

\* fn municipality(&self) -> &str
municipality(rec) == rec.municipality

\* fn get_weight(&self, category) -> Option<f64>:
\*     self.data.get(&category).map(|&(_, weight)| weight)
get_weight(rec, category) ==
    IF category \in DOMAIN rec.data
    THEN <<"Some", rec.data[category][2]>>
    ELSE <<"None">>

\* Option::unwrap_or
unwrap_or(opt, default) == IF opt[1] = "Some" THEN opt[2] ELSE default

(***************************************************************************)
(* Feature extraction, the closure of k_means_clustering:                  *)
(*   (1..=10).map(|category| entry.get_weight(category).unwrap_or(0.0))    *)
(***************************************************************************)
FirstCategory == 1
LastCategory == 10

extract_features_exclusive(rec) ==
    [i \in 1..(LastCategory - FirstCategory) |->
        unwrap_or(get_weight(rec, FirstCategory + i - 1), 0)]

extract_features(rec) ==
    [i \in 1..(LastCategory - FirstCategory + 1) |->
        unwrap_or(get_weight(rec, FirstCategory + i - 1), 0)]

\* let features: Vec<Vec<f64>> = data.iter().map(...).collect();
features_of(d) == [i \in 1..Len(d) |-> extract_features(d[i])]

(***************************************************************************)
(* Records the inputs are drawn from.                                      *)
(***************************************************************************)
\* Category ids a record of the feature specification may define: inside
\* the canonical range (1, 2, 10) and outside it (0, 11).
FeatureCategories == {0, 1, 2, 10, 11}

FeatureMaps ==
    UNION {[cs -> {<<1, w>> : w \in 0..MaxWeight}] : cs \in SUBSET FeatureCategories}

FeatureRecords == {Rec("A", m) : m \in FeatureMaps}

RecA == Rec("A", 1 :> <<5, 5>>)
RecB == Rec("B", 1 :> <<3, 9>>)
RecC == Rec("C", 1 :> <<5, 5>>)
\* same municipality as RecA, other weights
RecA2 == Rec("A", (1 :> <<5, 9>>) @@ (10 :> <<2, 3>>))
\* same municipality and weights as RecA, other count
RecA3 == Rec("A", 1 :> <<3, 5>>)
\* only categories outside 1..=10: an all-zero feature vector
RecD == Rec("D", (0 :> <<1, 7>>) @@ (11 :> <<4, 2>>))

ClusterRecords == {RecA, RecB, RecC, RecA2}
GraphRecords == {RecA, RecB, RecA2, RecD}
FilterRecords == {RecA, RecB, RecA2, RecA3}

(***************************************************************************)
(* Feature extraction on its own: Init draws a record, Extract applies it. *)
(***************************************************************************)
InitFeatures ==
    /\ pc = "start"
    /\ DriverIdle
    /\ entry \in FeatureRecords
    /\ feature_vec = NotUsed
    /\ data = NotUsed /\ k = NotUsed /\ clusters = NotUsed
    /\ result_clusters = NotUsed /\ graph = NotUsed
    /\ data1 = NotUsed /\ data2 = NotUsed /\ matches = NotUsed
    /\ common_municipalities = NotUsed

Extract ==
    /\ pc = "start"
    /\ feature_vec' = extract_features(entry)
    /\ pc' = "extracted"
    /\ UNCHANGED <<entry, clusterVars, graphVars, filterVars, driverVars>>

NextFeatures == Extract

SpecFeatures == InitFeatures /\ [][NextFeatures]_vars

\* C4: the extracted feature vector has length exactly 10 and its element i
\* (0-based) is the record's weight for category i+1 if the record defines
\* that category and 0.0 if it does not, whatever categories the record holds.
C4_FeatureVector ==
    pc = "extracted" =>
        /\ Len(feature_vec) = 10
        /\ \A i \in 0..9 :
              feature_vec[i + 1] =
                  IF (i + 1) \in DOMAIN entry.data THEN entry.data[i + 1][2] ELSE 0

\* A record defining category 10 with a non-zero weight, category 1 absent
\* and a category outside the range, after extraction.
C4_Witness ==
    /\ pc = "extracted"
    /\ 10 \in DOMAIN entry.data /\ entry.data[10][2] # 0
    /\ 1 \notin DOMAIN entry.data
    /\ 11 \in DOMAIN entry.data /\ entry.data[11][2] # 0

(***************************************************************************)
(* k_means_clustering.  KMeans::new(k).fit(&features) is the k_means       *)
(* crate: the source fixes neither its seeding nor its behaviour outside   *)
(* 1 <= k <= n, so fit is any labelling of the points with indices below   *)
(* k, and for k = 0 or k > n it may also panic.                            *)
(***************************************************************************)
kmeans_fit(features, kk) == [1..Len(features) -> 0..(kk - 1)]

fit_may_panic(features, kk) == kk = 0 \/ kk > Len(features)

\* result_clusters.entry(*cluster_idx).or_insert_with(Vec::new).push(name)
insert_entry(acc, c, name) ==
    IF c \in DOMAIN acc
    THEN [acc EXCEPT ![c] = <<name>>]
    ELSE acc @@ (c :> <<name>>)

push_entry(acc, c, name) ==
    IF c \in DOMAIN acc
    THEN [acc EXCEPT ![c] = Append(@, name)]
    ELSE acc @@ (c :> <<name>>)

\* for (i, cluster_idx) in clusters.iter().enumerate() { ... data[i] ... }
RECURSIVE organize(_, _, _, _)
organize(d, labels, i, acc) ==
    IF i > Len(labels)
    THEN acc
    ELSE organize(d, labels, i + 1, push_entry(acc, labels[i], municipality(d[i])))

\* HashMap::new()
new_map == [c \in {} |-> <<>>]

\* the function from the labels fit returned to its result
k_means_clustering_prefilled(d, kk, labels) ==
    organize(d, labels, 1, [c \in 0..(kk - 1) |-> <<>>])

k_means_clustering(d, kk, labels) == organize(d, labels, 1, new_map)

InitCluster ==
    /\ pc = "start"
    /\ DriverIdle
    /\ data \in SeqsUpTo(ClusterRecords, MaxRecords)
    /\ k \in 0..MaxK
    /\ clusters = NotUsed /\ result_clusters = NotUsed
    /\ entry = NotUsed /\ feature_vec = NotUsed /\ graph = NotUsed
    /\ data1 = NotUsed /\ data2 = NotUsed /\ matches = NotUsed
    /\ common_municipalities = NotUsed

KMeansReturns ==
    /\ pc = "start"
    /\ \E labels \in kmeans_fit(features_of(data), k) :
          /\ clusters' = labels
          /\ result_clusters' = k_means_clustering(data, k, labels)
    /\ pc' = "returned"
    /\ UNCHANGED <<data, k, featureVars, graphVars, filterVars, driverVars>>

KMeansPanics ==
    /\ pc = "start"
    /\ fit_may_panic(features_of(data), k)
    /\ pc' = "panicked"
    /\ UNCHANGED <<clusterVars, featureVars, graphVars, filterVars, driverVars>>

NextCluster == KMeansReturns \/ KMeansPanics

SpecCluster == InitCluster /\ [][NextCluster]_vars

Range(s) == {s[i] : i \in DOMAIN s}

InputNames == {municipality(data[i]) : i \in 1..Len(data)}

\* the slots <<cluster index, position in its list>> of the returned mapping
Slots == UNION {{<<c, j>> : j \in 1..Len(result_clusters[c])} : c \in DOMAIN result_clusters}

ValidK == 1 <= k /\ k <= Len(data)

DistinctNames ==
    \A i, j \in 1..Len(data) : municipality(data[i]) = municipality(data[j]) => i = j

NoIdentifierTwice ==
    \A p, q \in Slots :
        result_clusters[p[1]][p[2]] = result_clusters[q[1]][q[2]] => p = q

\* C1 as stated: for 1 <= k <= n the returned mapping partitions the input:
\* every input position's municipality is in exactly one cluster list, no
\* identifier appears twice across all lists, and the union of the lists is
\* the input municipality set.
C1_Partition ==
    (pc = "returned" /\ ValidK) =>
        /\ \A i \in 1..Len(data) :
              Cardinality({c \in DOMAIN result_clusters :
                  municipality(data[i]) \in Range(result_clusters[c])}) = 1
        /\ NoIdentifierTwice
        /\ UNION {Range(result_clusters[c]) : c \in DOMAIN result_clusters} = InputNames

\* C1 amended: for 1 <= k <= n every input position contributes exactly one
\* entry to the lists (an identifier occurs across the lists as often as in
\* the input), the union of the lists is the input municipality set, and when
\* the input municipalities are pairwise distinct no identifier appears twice.
C1_PartitionByPosition ==
    (pc = "returned" /\ ValidK) =>
        /\ \A m \in InputNames \cup {result_clusters[p[1]][p[2]] : p \in Slots} :
              Cardinality({p \in Slots : result_clusters[p[1]][p[2]] = m})
                  = Cardinality({i \in 1..Len(data) : municipality(data[i]) = m})
        /\ UNION {Range(result_clusters[c]) : c \in DOMAIN result_clusters} = InputNames
        /\ DistinctNames => NoIdentifierTwice

\* Three distinct municipalities returned in two non-empty clusters, one of
\* them holding two entries.
C1_Witness ==
    /\ pc = "returned" /\ ValidK
    /\ Len(data) = 3 /\ DistinctNames
    /\ Cardinality(DOMAIN result_clusters) = 2
    /\ \E c \in DOMAIN result_clusters : Len(result_clusters[c]) = 2

\* C2: k == 0 or k > n ends in a reported InvalidClusterCount error value,
\* never in a panic and never in a cluster mapping.
C2_InvalidClusterCount ==
    (pc # "start" /\ (k = 0 \/ k > Len(data))) => pc = "InvalidClusterCount"

\* C6 as stated: every cluster index in 0..k is a key of the mapping returned
\* for k clusters (taken on the calls fit is certain to answer, 1 <= k <= n).
C6_EveryIndexIsKey ==
    (pc = "returned" /\ ValidK) => \A c \in 0..(k - 1) : c \in DOMAIN result_clusters

\* C6 amended: the keys of the returned mapping are exactly the cluster
\* indices that received at least one point, all below k, and no key holds an
\* empty list: a cluster that received no point has no entry.
C6_KeysAreUsedIndices ==
    pc = "returned" =>
        /\ DOMAIN result_clusters = {clusters[i] : i \in 1..Len(clusters)}
        /\ DOMAIN result_clusters \subseteq 0..(k - 1)
        /\ \A c \in DOMAIN result_clusters : Len(result_clusters[c]) >= 1

\* Two records with identical feature vectors, k = 2 <= n, both points in
\* cluster 0: index 1 received no point and is no key.
C6_Witness ==
    /\ pc = "returned" /\ k = 2 /\ Len(data) = 2
    /\ extract_features(data[1]) = extract_features(data[2])
    /\ DOMAIN result_clusters = {0}
    /\ Len(result_clusters[0]) = 2

(***************************************************************************)
(* create_graph.  The body is not part of main.rs ("Your existing          *)
(* implementation"); it is modelled from the design of the graph builder:  *)
(* one node per record in input order, and a directed edge between every   *)
(* ordered pair of distinct nodes whose feature vectors have non-zero      *)
(* similarity, weighted by that similarity (here the category overlap:     *)
(* the number of categories both records weigh non-zero).                  *)
(***************************************************************************)
similarity(a, b) ==
    Cardinality({i \in 1..Len(extract_features(a)) :
        extract_features(a)[i] # 0 /\ extract_features(b)[i] # 0})

create_graph_all_pairs(d) ==
    [nodes |-> [i \in 1..Len(d) |-> municipality(d[i])],
     edges |-> {<<i, j, similarity(d[i], d[j])>> :
                   <<i, j>> \in {q \in (1..Len(d)) \X (1..Len(d)) :
                                    similarity(d[q[1]], d[q[2]]) # 0}}]

create_graph(d) ==
    [nodes |-> [i \in 1..Len(d) |-> municipality(d[i])],
     edges |-> {<<i, j, similarity(d[i], d[j])>> :
                   <<i, j>> \in {q \in (1..Len(d)) \X (1..Len(d)) :
                                    q[1] # q[2] /\ similarity(d[q[1]], d[q[2]]) # 0}}]

InitGraph ==
    /\ pc = "start"
    /\ DriverIdle
    /\ data \in SeqsUpTo(GraphRecords, MaxRecords)
    /\ graph = NotUsed
    /\ k = NotUsed /\ clusters = NotUsed /\ result_clusters = NotUsed
    /\ entry = NotUsed /\ feature_vec = NotUsed
    /\ data1 = NotUsed /\ data2 = NotUsed /\ matches = NotUsed
    /\ common_municipalities = NotUsed

CreateGraph ==
    /\ pc = "start"
    /\ graph' = create_graph(data)
    /\ pc' = "built"
    /\ UNCHANGED <<clusterVars, featureVars, filterVars, driverVars>>

NextGraph == CreateGraph

SpecGraph == InitGraph /\ [][NextGraph]_vars

\* C8: the graph built from any input slice has one node per record and no
\* self-loop: no edge has the same node as source and target, also when two
\* records share a municipality name (they are two distinct nodes).
C8_NoSelfLoop ==
    pc = "built" =>
        /\ Len(graph.nodes) = Len(data)
        /\ \A e \in graph.edges : e[1] # e[2]

\* Two records of the same municipality, built as two nodes with the same
\* label and joined by an edge.
C8_Witness ==
    /\ pc = "built"
    /\ \E e \in graph.edges :
          /\ e[1] # e[2]
          /\ graph.nodes[e[1]] = graph.nodes[e[2]]

(***************************************************************************)
(* filter_common_municipalities.                                           *)
(***************************************************************************)
\* e == entry1 (T: PartialEq): equality of the municipality and of the
\* whole category map
record_eq_by_name(a, b) == a.municipality = b.municipality

record_eq(a, b) == a.municipality = b.municipality /\ a.data = b.data

EqualAt(d2, e1) == {j \in 1..Len(d2) : record_eq(d2[j], e1)}

\* data2.iter().find(|&e| e == entry1): the first equal entry, as its index
find_last(d2, e1) ==
    IF EqualAt(d2, e1) = {}
    THEN <<"None">>
    ELSE <<"Some", CHOOSE j \in EqualAt(d2, e1) : \A j2 \in EqualAt(d2, e1) : j2 <= j>>

find(d2, e1) ==
    IF EqualAt(d2, e1) = {}
    THEN <<"None">>
    ELSE <<"Some", CHOOSE j \in EqualAt(d2, e1) : \A j2 \in EqualAt(d2, e1) : j <= j2>>

\* for entry1 in data1.iter() { if let Some(entry2) = ... { push } }
RECURSIVE filter_matches(_, _, _, _)
filter_matches(d1, d2, i, acc) ==
    IF i > Len(d1)
    THEN acc
    ELSE LET found == find(d2, d1[i])
         IN  filter_matches(d1, d2, i + 1,
                 IF found[1] = "Some" THEN Append(acc, <<i, found[2]>>) ELSE acc)

\* (entry1.municipality().to_string(), entry1.clone(), entry2.clone())
filter_common_municipalities(d1, d2) ==
    LET ms == filter_matches(d1, d2, 1, <<>>)
    IN  [p \in 1..Len(ms) |-> <<municipality(d1[ms[p][1]]), d1[ms[p][1]], d2[ms[p][2]]>>]

InitFilter ==
    /\ pc = "start"
    /\ DriverIdle
    /\ data1 \in SeqsUpTo(FilterRecords, MaxFilterLen)
    /\ data2 \in SeqsUpTo(FilterRecords, MaxFilterLen)
    /\ matches = NotUsed /\ common_municipalities = NotUsed
    /\ data = NotUsed /\ k = NotUsed /\ clusters = NotUsed
    /\ result_clusters = NotUsed /\ graph = NotUsed
    /\ entry = NotUsed /\ feature_vec = NotUsed

FilterCommon ==
    /\ pc = "start"
    /\ matches' = filter_matches(data1, data2, 1, <<>>)
    /\ common_municipalities' = filter_common_municipalities(data1, data2)
    /\ pc' = "filtered"
    /\ UNCHANGED <<data1, data2, clusterVars, featureVars, graphVars, driverVars>>

NextFilter == FilterCommon

SpecFilter == InitFilter /\ [][NextFilter]_vars

StructurallyEqual(a, b) ==
    /\ a.municipality = b.municipality
    /\ DOMAIN a.data = DOMAIN b.data
    /\ \A c \in DOMAIN a.data : a.data[c][1] = b.data[c][1] /\ a.data[c][2] = b.data[c][2]

SameNameOtherWeights(a, b) ==
    /\ a.municipality = b.municipality
    /\ \/ DOMAIN a.data # DOMAIN b.data
       \/ \E c \in DOMAIN a.data : a.data[c][2] # b.data[c][2]

Emitted(i) == \E p \in 1..Len(matches) : matches[p][1] = i

C9_OrderedFirstMatch ==
    pc = "filtered" =>
        /\ Len(common_municipalities) <= Len(data1)
        /\ Len(matches) = Len(common_municipalities)
        /\ \A p, q \in 1..Len(matches) : p < q => matches[p][1] < matches[q][1]
        /\ {matches[p][1] : p \in 1..Len(matches)}
              = {i \in 1..Len(data1) :
                    \E j \in 1..Len(data2) : StructurallyEqual(data1[i], data2[j])}
        /\ \A p \in 1..Len(matches) :
              /\ StructurallyEqual(data1[matches[p][1]], data2[matches[p][2]])
              /\ \A j \in 1..(matches[p][2] - 1) :
                    ~StructurallyEqual(data1[matches[p][1]], data2[j])
              /\ common_municipalities[p]
                    = <<data1[matches[p][1]].municipality,
                        data1[matches[p][1]], data2[matches[p][2]]>>

\* data2 holds two equal entries and both entries of data1 equal them: two
\* pairs in data1's order, each with the first entry of data2.
C9_Witness ==
    /\ pc = "filtered"
    /\ Len(data1) = 2 /\ Len(data2) = 2
    /\ StructurallyEqual(data2[1], data2[2])
    /\ Len(common_municipalities) = 2
    /\ matches = <<(<<1, 1>>), (<<2, 1>>)>>

(***************************************************************************)
(* main, the driver.  read_data, visualize_graph and the plotters calls of *)
(* plot_clusters are external I/O: each either succeeds or returns Err.    *)
(***************************************************************************)
\* let k = 3;
ClusterCount == 3

EducationInputs == SeqsUpTo({RecA, RecB}, MaxDriverLen)

PopGrowthInputs == SeqsUpTo({RecA}, MaxDriverLen)

FunctionVarsIdle ==
    /\ entry = NotUsed /\ feature_vec = NotUsed
    /\ data = NotUsed /\ k = NotUsed /\ clusters = NotUsed
    /\ result_clusters = NotUsed /\ graph = NotUsed
    /\ data1 = NotUsed /\ data2 = NotUsed /\ matches = NotUsed

functionVars == <<entry, feature_vec, data, k, clusters, result_clusters, graph,
                  data1, data2, matches>>

InitDriver ==
    /\ pc = "read_education"
    /\ FunctionVarsIdle
    /\ common_municipalities = NotUsed
    /\ education_data = NotUsed /\ pop_growth_data = NotUsed
    /\ education_graph = NotUsed /\ pop_growth_graph = NotUsed
    /\ education_clusters = NotUsed /\ pop_growth_clusters = NotUsed
    /\ stderr = <<>>
    /\ files = {}
    /\ attempted = {}

\* read_data::<EducationData>("educationstats.txt") returned Ok
ReadEducationOk ==
    /\ pc = "read_education"
    /\ \E d \in EducationInputs : education_data' = d
    /\ attempted' = attempted \cup {"read_education"}
    /\ pc' = "read_pop_growth"
    /\ UNCHANGED <<functionVars, common_municipalities, pop_growth_data,
                   education_graph, pop_growth_graph, education_clusters,
                   pop_growth_clusters, stderr, files>>

\* ... returned Err: .expect("Error reading education data") panics
ReadEducationErr ==
    /\ pc = "read_education"
    /\ attempted' = attempted \cup {"read_education"}
    /\ stderr' = Append(stderr, "panic: Error reading education data")
    /\ pc' = "panicked"
    /\ UNCHANGED <<functionVars, common_municipalities, education_data, pop_growth_data,
                   education_graph, pop_growth_graph, education_clusters,
                   pop_growth_clusters, files>>

ReadPopGrowthOk ==
    /\ pc = "read_pop_growth"
    /\ \E d \in PopGrowthInputs : pop_growth_data' = d
    /\ attempted' = attempted \cup {"read_pop_growth"}
    /\ pc' = "filter"
    /\ UNCHANGED <<functionVars, common_municipalities, education_data,
                   education_graph, pop_growth_graph, education_clusters,
                   pop_growth_clusters, stderr, files>>

ReadPopGrowthErr ==
    /\ pc = "read_pop_growth"
    /\ attempted' = attempted \cup {"read_pop_growth"}
    /\ stderr' = Append(stderr, "panic: Error reading pop growth data")
    /\ pc' = "panicked"
    /\ UNCHANGED <<functionVars, common_municipalities, education_data, pop_growth_data,
                   education_graph, pop_growth_graph, education_clusters,
                   pop_growth_clusters, files>>

\* filter_common_municipalities, then the two create_graph calls
FilterAndCreateGraphs ==
    /\ pc = "filter"
    /\ common_municipalities' = filter_common_municipalities(education_data, pop_growth_data)
    /\ education_graph' = create_graph(education_data)
    /\ pop_growth_graph' = create_graph(pop_growth_data)
    /\ attempted' = attempted \cup {"filter", "create_graph"}
    /\ pc' = "visualize_education"
    /\ UNCHANGED <<functionVars, education_data, pop_growth_data, education_clusters,
                   pop_growth_clusters, stderr, files>>

\* if let Err(err) = visualize_graph(&education_graph, ...) { eprintln!(...) }
VisualizeEducationOk ==
    /\ pc = "visualize_education"
    /\ files' = files \cup {"education_graph.dot"}
    /\ attempted' = attempted \cup {"visualize_education"}
    /\ pc' = "visualize_pop_growth"
    /\ UNCHANGED <<functionVars, common_municipalities, education_data, pop_growth_data,
                   education_graph, pop_growth_graph, education_clusters,
                   pop_growth_clusters, stderr>>

VisualizeEducationErr ==
    /\ pc = "visualize_education"
    /\ stderr' = Append(stderr, "Error: education_graph.dot")
    /\ attempted' = attempted \cup {"visualize_education"}
    /\ pc' = "visualize_pop_growth"
    /\ UNCHANGED <<functionVars, common_municipalities, education_data, pop_growth_data,
                   education_graph, pop_growth_graph, education_clusters,
                   pop_growth_clusters, files>>

VisualizePopGrowthOk ==
    /\ pc = "visualize_pop_growth"
    /\ files' = files \cup {"pop_growth_graph.dot"}
    /\ attempted' = attempted \cup {"visualize_pop_growth"}
    /\ pc' = "cluster_education"
    /\ UNCHANGED <<functionVars, common_municipalities, education_data, pop_growth_data,
                   education_graph, pop_growth_graph, education_clusters,
                   pop_growth_clusters, stderr>>

VisualizePopGrowthErr ==
    /\ pc = "visualize_pop_growth"
    /\ stderr' = Append(stderr, "Error: pop_growth_graph.dot")
    /\ attempted' = attempted \cup {"visualize_pop_growth"}
    /\ pc' = "cluster_education"
    /\ UNCHANGED <<functionVars, common_municipalities, education_data, pop_growth_data,
                   education_graph, pop_growth_graph, education_clusters,
                   pop_growth_clusters, files>>

\* let education_clusters = k_means_clustering(&education_data, k);
ClusterEducationReturns ==
    /\ pc = "cluster_education"
    /\ \E labels \in kmeans_fit(features_of(education_data), ClusterCount) :
          education_clusters' = k_means_clustering(education_data, ClusterCount, labels)
    /\ attempted' = attempted \cup {"cluster_education"}
    /\ pc' = "cluster_pop_growth"
    /\ UNCHANGED <<functionVars, common_municipalities, education_data, pop_growth_data,
                   education_graph, pop_growth_graph, pop_growth_clusters, stderr, files>>

ClusterEducationPanics ==
    /\ pc = "cluster_education"
    /\ fit_may_panic(features_of(education_data), ClusterCount)
    /\ attempted' = attempted \cup {"cluster_education"}
    /\ stderr' = Append(stderr, "panic: k_means_clustering education")
    /\ pc' = "panicked"
    /\ UNCHANGED <<functionVars, common_municipalities, education_data, pop_growth_data,
                   education_graph, pop_growth_graph, education_clusters,
                   pop_growth_clusters, files>>

\* let pop_growth_clusters = ...; then the two println!
ClusterPopGrowthReturns ==
    /\ pc = "cluster_pop_growth"
    /\ \E labels \in kmeans_fit(features_of(pop_growth_data), ClusterCount) :
          pop_growth_clusters' = k_means_clustering(pop_growth_data, ClusterCount, labels)
    /\ attempted' = attempted \cup {"cluster_pop_growth"}
    /\ pc' = "plot_education"
    /\ UNCHANGED <<functionVars, common_municipalities, education_data, pop_growth_data,
                   education_graph, pop_growth_graph, education_clusters, stderr, files>>

ClusterPopGrowthPanics ==
    /\ pc = "cluster_pop_growth"
    /\ fit_may_panic(features_of(pop_growth_data), ClusterCount)
    /\ attempted' = attempted \cup {"cluster_pop_growth"}
    /\ stderr' = Append(stderr, "panic: k_means_clustering pop growth")
    /\ pc' = "panicked"
    /\ UNCHANGED <<functionVars, common_municipalities, education_data, pop_growth_data,
                   education_graph, pop_growth_graph, education_clusters,
                   pop_growth_clusters, files>>

\* plot_clusters(&education_clusters, "education_clusters.png"): every
\* plotters call succeeded
PlotEducationOk ==
    /\ pc = "plot_education"
    /\ files' = files \cup {"education_clusters.png"}
    /\ attempted' = attempted \cup {"plot_education"}
    /\ pc' = "plot_pop_growth"
    /\ UNCHANGED <<functionVars, common_municipalities, education_data, pop_growth_data,
                   education_graph, pop_growth_graph, education_clusters,
                   pop_growth_clusters, stderr>>

\* root.fill(..).unwrap(), build_ranged(..).unwrap() or draw_series(..).unwrap()
\* met an Err
PlotEducationPanics ==
    /\ pc = "plot_education"
    /\ attempted' = attempted \cup {"plot_education"}
    /\ stderr' = Append(stderr, "panic: plot education_clusters.png")
    /\ pc' = "panicked"
    /\ UNCHANGED <<functionVars, common_municipalities, education_data, pop_growth_data,
                   education_graph, pop_growth_graph, education_clusters,
                   pop_growth_clusters, files>>

PlotPopGrowthOk ==
    /\ pc = "plot_pop_growth"
    /\ files' = files \cup {"pop_growth_clusters.png"}
    /\ attempted' = attempted \cup {"plot_pop_growth"}
    /\ pc' = "done"
    /\ UNCHANGED <<functionVars, common_municipalities, education_data, pop_growth_data,
                   education_graph, pop_growth_graph, education_clusters,
                   pop_growth_clusters, stderr>>

PlotPopGrowthPanics ==
    /\ pc = "plot_pop_growth"
    /\ attempted' = attempted \cup {"plot_pop_growth"}
    /\ stderr' = Append(stderr, "panic: plot pop_growth_clusters.png")
    /\ pc' = "panicked"
    /\ UNCHANGED <<functionVars, common_municipalities, education_data, pop_growth_data,
                   education_graph, pop_growth_graph, education_clusters,
                   pop_growth_clusters, files>>

NextDriver ==
    \/ ReadEducationOk \/ ReadEducationErr
    \/ ReadPopGrowthOk \/ ReadPopGrowthErr
    \/ FilterAndCreateGraphs
    \/ VisualizeEducationOk \/ VisualizeEducationErr
    \/ VisualizePopGrowthOk \/ VisualizePopGrowthErr
    \/ ClusterEducationReturns \/ ClusterEducationPanics
    \/ ClusterPopGrowthReturns \/ ClusterPopGrowthPanics
    \/ PlotEducationOk \/ PlotEducationPanics
    \/ PlotPopGrowthOk \/ PlotPopGrowthPanics

SpecDriver == InitDriver /\ [][NextDriver]_vars

EducationExportFailed ==
    \E i \in 1..Len(stderr) : stderr[i] = "Error: education_graph.dot"

\* C10: no failure of a stage crashes the run: a read, clustering or plot
\* failure never ends in a process-fatal panic, and a run in which the
\* education graph export failed still attempts the pop-growth graph export
\* and reaches the clustering and the cluster plot of both datasets.
C10_NoStageCrashesTheRun ==
    /\ pc # "panicked"
    /\ (EducationExportFailed /\ pc \in {"done", "panicked"}) =>
          {"visualize_pop_growth", "cluster_education", "cluster_pop_growth",
           "plot_education", "plot_pop_growth"} \subseteq attempted

====
